---- MODULE Spec2Model ----
(***************************************************************************)
(* Workflow operation mode validator and the execution store it guards     *)
(* (common/persistence/operationModeValidator).  The validator's decision  *)
(* tables are taken from the expectation maps of its test suite,           *)
(* operationModeValidator_test.go; the request entry points that apply a   *)
(* validated request to the execution records and the current-execution    *)
(* pointer follow the design document (sections 3, 4.3, 4.4, 6, 7).        *)
(***************************************************************************)
EXTENDS Integers, FiniteSets, Sequences, TLC

VARIABLES
    request,            \* the request handed to the validator (validator runs)
    verdict,            \* the validator's answer to `request`
    executions,         \* execution records: (workflowID, runID) -> state
    currentExecutions,  \* rows of the current-execution pointer table
    lastOp,             \* the last request the entry points handled
    shards,             \* committed rows of the shards table: shard_id -> row
    txState,            \* per transaction: "idle" or "active"
    txWrites,           \* per transaction: its uncommitted shard rows
    txToken,            \* per transaction and shard: the range_id it verified, if any
    rowLocks,           \* per shard: the row locks held, as <<txn, mode>> pairs
    lastShardOp,        \* the last call on the shards table and its outcome
    domains,            \* committed rows of the domains table: id -> row
    domainMetadata,     \* committed notification_version of domain_metadata
    txDomainWrites,     \* per transaction: its uncommitted domain rows
    txMetadata,         \* per transaction: its uncommitted notification_version, if any
    metadataLocks,      \* row locks held on the domain_metadata row
    txPc,               \* per transaction: its step in a domain mutation, or "none"
    txBumps,            \* per transaction: its uncommitted successful bumps
    txChanges,          \* per transaction: its uncommitted domain record changes
    successfulBumps,    \* per expected version: committed successful bumps carrying it
    committedChanges,   \* number of committed domain record changes
    lastDomainOp,       \* the last call on the domain tables and its outcome
    txPointer,          \* per transaction: its uncommitted current-pointer row, if any
    lastWrite,          \* the write applied last, as its caller may issue it again
    selected,           \* the filter of the last SelectFromDomain, the queries it
                        \* issued, the rows and the error it returned
    metadataRow,        \* the DomainMetadataRow the last call on domain_metadata
                        \* returned to its caller, if it returned one
    paging              \* the enumeration of the domains table under way: its
                        \* page size and the pages fetched so far

validatorVars == <<request, verdict>>
storeVars == <<executions, currentExecutions, lastOp>>
shardVars == <<shards, txState, txWrites, txToken, rowLocks, lastShardOp>>

domainVars == <<domains, domainMetadata, txDomainWrites, txMetadata, metadataLocks,
                txPc, txBumps, txChanges, successfulBumps, committedChanges,
                lastDomainOp>>

operationVars == <<txPointer, lastWrite>>
queryVars == <<selected, metadataRow, paging>>

vars == <<validatorVars, storeVars, shardVars, domainVars, operationVars, queryVars>>

exceptValidator == <<storeVars, shardVars, domainVars, operationVars, queryVars>>
exceptStore == <<validatorVars, shardVars, domainVars, operationVars, queryVars>>
exceptShards == <<validatorVars, storeVars, domainVars, operationVars, queryVars>>
exceptTables == <<validatorVars, storeVars, operationVars, queryVars>>

----------------------------------------------------------------------------
(* Bounds *)

MaxRuns == 3
NumShards == 1
NumTxns == 2
MaxRangeID == 1
MaxVersion == 2
NumDomains == 3
MaxPageSize == 2

WorkflowIDs == {"w1"}
RunIDs == 1..MaxRuns
\* the shards of the table; the table is created over 1..NumShards
ShardIDs == DOMAIN shards
Txns == 1..NumTxns
RangeIDs == 0..MaxRangeID

----------------------------------------------------------------------------
(* Workflow states and operation modes *)

Nil == "nil"

WorkflowStateCreated   == "Created"
WorkflowStateRunning   == "Running"
WorkflowStateCompleted == "Completed"
WorkflowStateZombie    == "Zombie"

WorkflowStates ==
    {WorkflowStateCreated, WorkflowStateRunning,
     WorkflowStateCompleted, WorkflowStateZombie}

OptionalStates == WorkflowStates \cup {Nil}

CreateWorkflowModeBrandNew        == "BrandNew"
CreateWorkflowModeWorkflowIDReuse == "WorkflowIDReuse"
CreateWorkflowModeContinueAsNew   == "ContinueAsNew"
CreateWorkflowModeZombie          == "Zombie"

CreateWorkflowModes ==
    {CreateWorkflowModeBrandNew, CreateWorkflowModeWorkflowIDReuse,
     CreateWorkflowModeContinueAsNew, CreateWorkflowModeZombie}

UpdateWorkflowModeUpdateCurrent == "UpdateCurrent"
UpdateWorkflowModeBypassCurrent == "BypassCurrent"
UpdateWorkflowModeIgnoreCurrent == "IgnoreCurrent"

UpdateWorkflowModes ==
    {UpdateWorkflowModeUpdateCurrent, UpdateWorkflowModeBypassCurrent,
     UpdateWorkflowModeIgnoreCurrent}

ConflictResolveWorkflowModeUpdateCurrent == "UpdateCurrent"
ConflictResolveWorkflowModeBypassCurrent == "BypassCurrent"

ConflictResolveWorkflowModes ==
    {ConflictResolveWorkflowModeUpdateCurrent,
     ConflictResolveWorkflowModeBypassCurrent}

\* map[int]bool literal of the tests: state -> an error is expected
StateToError(created, running, completed, zombie) ==
    [s \in WorkflowStates |->
        CASE s = WorkflowStateCreated   -> created
          [] s = WorkflowStateRunning   -> running
          [] s = WorkflowStateCompleted -> completed
          [] s = WorkflowStateZombie    -> zombie]

----------------------------------------------------------------------------
(* Create family: TestCreateMode_UpdateCurrent, TestCreateMode_BypassCurrent *)

CreateMode_UpdateCurrent_creatModes ==
    {CreateWorkflowModeBrandNew, CreateWorkflowModeWorkflowIDReuse,
     CreateWorkflowModeContinueAsNew}

CreateMode_UpdateCurrent_stateToError_Mutant ==
    StateToError(FALSE, FALSE, FALSE, TRUE)

CreateMode_UpdateCurrent_stateToError_ZombieMutant ==
    StateToError(FALSE, FALSE, TRUE, FALSE)

CreateMode_UpdateCurrent_stateToError ==
    StateToError(FALSE, FALSE, TRUE, TRUE)

CreateMode_BypassCurrent_stateToError ==
    StateToError(TRUE, TRUE, TRUE, FALSE)

\* TRUE iff ValidateCreateWorkflowModeState returns an error
ValidateCreateWorkflowModeState(mode, newState) ==
    IF mode \in CreateMode_UpdateCurrent_creatModes
    THEN CreateMode_UpdateCurrent_stateToError[newState]
    ELSE CreateMode_BypassCurrent_stateToError[newState]

----------------------------------------------------------------------------
(* Update family: TestUpdateMode_UpdateCurrent, TestUpdateMode_BypassCurrent, *)
(* TestUpdateMode_IgnoreCurrent                                              *)

UpdateMode_UpdateCurrent_stateToError_Mutant ==
    StateToError(FALSE, FALSE, FALSE, FALSE)

UpdateMode_UpdateCurrent_stateToError ==
    StateToError(FALSE, FALSE, FALSE, TRUE)

UpdateMode_UpdateCurrent_currentStateToError_Mutant ==
    StateToError(FALSE, TRUE, FALSE, FALSE)

UpdateMode_UpdateCurrent_currentStateToError ==
    StateToError(TRUE, TRUE, FALSE, FALSE)

UpdateMode_UpdateCurrent_newStateToError ==
    StateToError(FALSE, FALSE, TRUE, TRUE)

UpdateMode_BypassCurrent_stateToError_Mutant ==
    StateToError(TRUE, TRUE, FALSE, TRUE)

UpdateMode_BypassCurrent_stateToError ==
    StateToError(TRUE, TRUE, FALSE, FALSE)

UpdateMode_BypassCurrent_currentStateToError_Mutant ==
    StateToError(TRUE, FALSE, FALSE, FALSE)

UpdateMode_BypassCurrent_currentStateToError ==
    StateToError(TRUE, TRUE, FALSE, FALSE)

UpdateMode_BypassCurrent_newStateToError_Mutant ==
    StateToError(FALSE, FALSE, TRUE, TRUE)

UpdateMode_BypassCurrent_newStateToError ==
    StateToError(TRUE, TRUE, TRUE, FALSE)

\* IgnoreCurrent: the test fixes (Completed, nil) -> no error and
\* (Completed, Running) -> error; the rule for the other states is the
\* design document's: valid iff no new execution is supplied.
UpdateMode_IgnoreCurrent_Error_Mutant(currentState, newState) ==
    newState # Nil /\ currentState # WorkflowStateZombie

UpdateMode_IgnoreCurrent_Error(currentState, newState) ==
    newState # Nil

\* TRUE iff ValidateUpdateWorkflowModeState returns an error
ValidateUpdateWorkflowModeState(mode, currentState, newState) ==
    CASE mode = UpdateWorkflowModeUpdateCurrent ->
            IF newState = Nil
            THEN UpdateMode_UpdateCurrent_stateToError[currentState]
            ELSE \/ UpdateMode_UpdateCurrent_currentStateToError[currentState]
                 \/ UpdateMode_UpdateCurrent_newStateToError[newState]
      [] mode = UpdateWorkflowModeBypassCurrent ->
            IF newState = Nil
            THEN UpdateMode_BypassCurrent_stateToError[currentState]
            ELSE \/ UpdateMode_BypassCurrent_currentStateToError[currentState]
                 \/ UpdateMode_BypassCurrent_newStateToError[newState]
      [] mode = UpdateWorkflowModeIgnoreCurrent ->
            UpdateMode_IgnoreCurrent_Error(currentState, newState)

----------------------------------------------------------------------------
(* Conflict-resolve family: TestConflictResolveMode_UpdateCurrent,          *)
(* TestConflictResolveMode_BypassCurrent                                    *)

\* only reset workflow
ConflictResolveMode_UpdateCurrent_stateToError_Mutant ==
    StateToError(FALSE, FALSE, TRUE, TRUE)

ConflictResolveMode_UpdateCurrent_stateToError ==
    StateToError(FALSE, FALSE, FALSE, TRUE)

\* reset workflow & new workflow
ConflictResolveMode_UpdateCurrent_resetNew_resetStateToError_Mutant ==
    StateToError(TRUE, TRUE, FALSE, FALSE)

ConflictResolveMode_UpdateCurrent_resetNew_resetStateToError ==
    StateToError(TRUE, TRUE, FALSE, TRUE)

ConflictResolveMode_UpdateCurrent_resetNew_newStateToError ==
    StateToError(FALSE, FALSE, TRUE, TRUE)

\* reset workflow & current workflow
ConflictResolveMode_UpdateCurrent_resetCurrent_resetStateToError ==
    StateToError(FALSE, FALSE, FALSE, TRUE)

ConflictResolveMode_UpdateCurrent_resetCurrent_currentStateToError ==
    StateToError(TRUE, TRUE, FALSE, FALSE)

\* reset workflow & new workflow & current workflow
ConflictResolveMode_UpdateCurrent_all_resetStateToError_Mutant ==
    StateToError(TRUE, FALSE, FALSE, TRUE)

ConflictResolveMode_UpdateCurrent_all_resetStateToError ==
    StateToError(TRUE, TRUE, FALSE, TRUE)

ConflictResolveMode_UpdateCurrent_all_newStateToError ==
    StateToError(FALSE, FALSE, TRUE, TRUE)

ConflictResolveMode_UpdateCurrent_all_currentStateToError ==
    StateToError(TRUE, TRUE, FALSE, FALSE)

\* only reset workflow
ConflictResolveMode_BypassCurrent_stateToError_Mutant ==
    StateToError(TRUE, FALSE, FALSE, TRUE)

ConflictResolveMode_BypassCurrent_stateToError ==
    StateToError(TRUE, TRUE, FALSE, FALSE)

\* reset workflow & new workflow
ConflictResolveMode_BypassCurrent_resetStateToError_Mutant ==
    StateToError(TRUE, FALSE, FALSE, TRUE)

ConflictResolveMode_BypassCurrent_resetStateToError ==
    StateToError(TRUE, TRUE, FALSE, TRUE)

ConflictResolveMode_BypassCurrent_newStateToError ==
    StateToError(TRUE, TRUE, TRUE, FALSE)

\* TRUE iff ValidateConflictResolveWorkflowModeState returns an error.
\* BypassCurrent is called with the reset snapshot alone or with reset and
\* new snapshot; it is never called with a current mutation.
ValidateConflictResolveWorkflowModeState(mode, resetState, newState, currentState) ==
    IF mode = ConflictResolveWorkflowModeUpdateCurrent
    THEN CASE newState = Nil /\ currentState = Nil ->
                ConflictResolveMode_UpdateCurrent_stateToError[resetState]
           [] newState # Nil /\ currentState = Nil ->
                \/ ConflictResolveMode_UpdateCurrent_resetNew_resetStateToError[resetState]
                \/ ConflictResolveMode_UpdateCurrent_resetNew_newStateToError[newState]
           [] newState = Nil /\ currentState # Nil ->
                \/ ConflictResolveMode_UpdateCurrent_resetCurrent_resetStateToError[resetState]
                \/ ConflictResolveMode_UpdateCurrent_resetCurrent_currentStateToError[currentState]
           [] newState # Nil /\ currentState # Nil ->
                \/ ConflictResolveMode_UpdateCurrent_all_resetStateToError[resetState]
                \/ ConflictResolveMode_UpdateCurrent_all_newStateToError[newState]
                \/ ConflictResolveMode_UpdateCurrent_all_currentStateToError[currentState]
    ELSE IF newState = Nil
         THEN ConflictResolveMode_BypassCurrent_stateToError[resetState]
         ELSE \/ ConflictResolveMode_BypassCurrent_resetStateToError[resetState]
              \/ ConflictResolveMode_BypassCurrent_newStateToError[newState]

----------------------------------------------------------------------------
(* Shards table (sqlplugin/postgres shard queries): rows, row locks and the  *)
(* transactions that call the plugin                                         *)

NoRow == [absent |-> TRUE]

ShardData == {"d1", "d2"}
ShardEncodings == {"thriftrw"}

\* sqlplugin.ShardsRow without its key
ShardsRow(rangeID, data, encoding) ==
    [range_id |-> rangeID, data |-> data, data_encoding |-> encoding]

ShardsRows == {ShardsRow(n, d, e) : n \in RangeIDs, d \in ShardData, e \in ShardEncodings}

\* the row-locking clause of a SELECT; "NONE" is a SELECT without one
ForUpdate == "FOR UPDATE"
ForShare == "FOR SHARE"
NoLockClause == "NONE"

lockShardQry_NoLock == NoLockClause

lockShardQry_Share == ForShare

lockShardQry == ForUpdate

readLockShardQry == ForShare

\* the shards table as it was committed, no transaction open
InitShards(table) ==
    /\ shards = table
    /\ txState = [t \in Txns |-> "idle"]
    /\ txWrites = [t \in Txns |-> [s \in DOMAIN table |-> NoRow]]
    /\ txToken = [t \in Txns |-> [s \in DOMAIN table |-> {}]]
    /\ rowLocks = [s \in DOMAIN table |-> {}]
    /\ lastShardOp = [op |-> "none", result |-> "none"]

----------------------------------------------------------------------------
(* Domain tables (sqlplugin/postgres/domain.go): the domains table and the   *)
(* singleton domain_metadata row holding notification_version                *)

DomainIDs == 1..NumDomains
DomainNames == {"n1", "n2"}
DomainData == {"c1"}

NoWrite == [nowrite |-> TRUE]

\* sqlplugin.DomainRow without its key
DomainRow(name, data) == [name |-> name, data |-> data]

DomainRows == {DomainRow(n, d) : n \in DomainNames, d \in DomainData}

NotificationVersions == 0..MaxVersion

\* the counter row is created holding version 0
InitialNotificationVersion == 0

\* the domains table as it was committed, no transaction open
InitDomain(rows) ==
    /\ domains = rows
    /\ domainMetadata = InitialNotificationVersion
    /\ txDomainWrites = [t \in Txns |-> [id \in DomainIDs |-> NoWrite]]
    /\ txMetadata = [t \in Txns |-> {}]
    /\ metadataLocks = {}
    /\ txPc = [t \in Txns |-> "none"]
    /\ txBumps = [t \in Txns |-> {}]
    /\ txChanges = [t \in Txns |-> 0]
    /\ successfulBumps = [v \in NotificationVersions |-> 0]
    /\ committedChanges = 0
    /\ lastDomainOp = [op |-> "none", version |-> 0, rows |-> 0, result |-> "none"]

----------------------------------------------------------------------------
(* Validator runs: one action per validator entry point, applied to every   *)
(* mode and every combination of participant states                         *)

NoRequest == [op |-> "none", mode |-> Nil, reset |-> Nil, cur |-> Nil, new |-> Nil]

Verdict(err) == IF err THEN "InvalidModeState" ELSE "ok"

\* no enumeration of the domains table under way
NotPaging == [state |-> "idle", pageSize |-> 0, pages |-> <<>>]

InitOver(table, rows) ==
    /\ request = NoRequest
    /\ verdict = "none"
    /\ executions = [k \in WorkflowIDs \X RunIDs |-> Nil]
    /\ currentExecutions = {}
    /\ lastOp = [op |-> "none", mode |-> Nil, result |-> "none"]
    /\ InitShards(table)
    /\ InitDomain(rows)
    /\ txPointer = [t \in Txns |-> {}]
    /\ lastWrite = [kind |-> "none"]
    /\ selected = [rows |-> <<>>, err |-> "none", queries |-> {}, filter |-> {}]
    /\ metadataRow = {}
    /\ paging = NotPaging

Init == InitOver([s \in 1..NumShards |-> NoRow], [id \in DomainIDs |-> NoRow])

\* a classifier that consults the pointer table
CallValidateCreate_ReadsStore ==
    \E mode \in CreateWorkflowModes, newState \in WorkflowStates :
        /\ request' = [op |-> "create", mode |-> mode, reset |-> Nil,
                       cur |-> Nil, new |-> newState]
        /\ verdict' = Verdict(\/ ValidateCreateWorkflowModeState(mode, newState)
                              \/ currentExecutions # {})
        /\ UNCHANGED exceptValidator

CallValidateCreate ==
    \E mode \in CreateWorkflowModes, newState \in WorkflowStates :
        /\ request' = [op |-> "create", mode |-> mode, reset |-> Nil,
                       cur |-> Nil, new |-> newState]
        /\ verdict' = Verdict(ValidateCreateWorkflowModeState(mode, newState))
        /\ UNCHANGED exceptValidator

CallValidateUpdate ==
    \E mode \in UpdateWorkflowModes, currentState \in WorkflowStates,
       newState \in OptionalStates :
        /\ request' = [op |-> "update", mode |-> mode, reset |-> Nil,
                       cur |-> currentState, new |-> newState]
        /\ verdict' = Verdict(ValidateUpdateWorkflowModeState(mode, currentState, newState))
        /\ UNCHANGED exceptValidator

CallValidateConflictResolve ==
    \E mode \in ConflictResolveWorkflowModes, resetState \in WorkflowStates,
       newState \in OptionalStates, currentState \in OptionalStates :
        /\ mode = ConflictResolveWorkflowModeBypassCurrent => currentState = Nil
        /\ request' = [op |-> "conflictResolve", mode |-> mode, reset |-> resetState,
                       cur |-> currentState, new |-> newState]
        /\ verdict' = Verdict(ValidateConflictResolveWorkflowModeState(
                                  mode, resetState, newState, currentState))
        /\ UNCHANGED exceptValidator

NextValidator ==
    \/ CallValidateCreate
    \/ CallValidateUpdate
    \/ CallValidateConflictResolve

SpecValidator == Init /\ [][NextValidator]_vars

----------------------------------------------------------------------------
(* Execution store and the three request entry points.  A request is        *)
(* validated first; a rejected request leaves the store as it was.  Every   *)
(* run of a workflow identity has its own record; the pointer table holds   *)
(* the row naming the run that is current.  Run ids are allocated fresh.    *)

Result(op, mode, result) == [op |-> op, mode |-> mode, result |-> result]

CurrentRunsOf(w) == {r \in RunIDs : <<w, r>> \in currentExecutions}

FreeRunIDs(w) == {r \in RunIDs : executions[<<w, r>>] = Nil}

NewRunID(w) == CHOOSE r \in FreeRunIDs(w) : \A q \in FreeRunIDs(w) : r <= q

\* insert of the pointer row; the table is keyed by the workflow identity
InsertCurrent(w, r) == currentExecutions \cup {<<w, r>>}

\* update of the pointer row of w so that it names run r
SetCurrent(w, r) ==
    {row \in currentExecutions : row[1] # w} \cup {<<w, r>>}

Reject(op, mode, result) ==
    /\ lastOp' = Result(op, mode, result)
    /\ UNCHANGED <<executions, currentExecutions>>

\* the handling of createExecution(mode, newRecord) for the record of run r
createRecord(w, r, mode, newState) ==
    IF ValidateCreateWorkflowModeState(mode, newState)
    THEN Reject("create", mode, "InvalidModeState")
    ELSE IF mode = CreateWorkflowModeBrandNew /\ CurrentRunsOf(w) # {}
    THEN Reject("create", mode, "AlreadyExists")
    ELSE /\ executions' = [executions EXCEPT ![<<w, r>>] = newState]
         /\ currentExecutions' =
               CASE mode = CreateWorkflowModeBrandNew -> InsertCurrent(w, r)
                 [] mode = CreateWorkflowModeZombie   -> currentExecutions
                 [] OTHER                             -> SetCurrent(w, r)
         /\ lastOp' = Result("create", mode, "ok")

\* createExecution(mode, newRecord)
createExecution ==
    \E w \in WorkflowIDs, mode \in CreateWorkflowModes, newState \in WorkflowStates :
        /\ FreeRunIDs(w) # {}
        /\ UNCHANGED exceptStore
        /\ createRecord(w, NewRunID(w), mode, newState)

\* updateExecution(mode, currentMutation, optionalNewRecord).  The mutation
\* addresses run r: the current run in mode UpdateCurrent, a run that is not
\* current in mode BypassCurrent, any run in mode IgnoreCurrent.
updateExecution ==
    \E w \in WorkflowIDs, r \in RunIDs, mode \in UpdateWorkflowModes,
       currentState \in WorkflowStates, newState \in OptionalStates :
        /\ newState # Nil => FreeRunIDs(w) # {}
        /\ mode = UpdateWorkflowModeUpdateCurrent => r \in CurrentRunsOf(w)
        /\ mode = UpdateWorkflowModeBypassCurrent => r \notin CurrentRunsOf(w)
        /\ UNCHANGED exceptStore
        /\ IF ValidateUpdateWorkflowModeState(mode, currentState, newState)
           THEN Reject("update", mode, "InvalidModeState")
           ELSE IF executions[<<w, r>>] = Nil
           THEN Reject("update", mode, "NotFound")
           ELSE /\ executions' =
                      IF newState = Nil
                      THEN [executions EXCEPT ![<<w, r>>] = currentState]
                      ELSE [executions EXCEPT ![<<w, r>>] = currentState,
                                              ![<<w, NewRunID(w)>>] = newState]
                /\ currentExecutions' =
                      IF mode = UpdateWorkflowModeUpdateCurrent /\ newState # Nil
                      THEN SetCurrent(w, NewRunID(w))
                      ELSE currentExecutions
                /\ lastOp' = Result("update", mode, "ok")

\* conflictResolveExecution(mode, resetRecord, optionalNewRecord,
\* optionalCurrentMutation).  The reset record is run r; a current mutation,
\* when supplied, addresses the current run, which is then another run than
\* r; without it, in mode UpdateCurrent, r itself is the current run.  In
\* mode BypassCurrent r is not current and the pointer is left alone.
conflictResolveExecution ==
    \E w \in WorkflowIDs, r \in RunIDs, mode \in ConflictResolveWorkflowModes,
       resetState \in WorkflowStates, newState \in OptionalStates,
       currentState \in OptionalStates :
        /\ mode = ConflictResolveWorkflowModeBypassCurrent =>
              currentState = Nil /\ r \notin CurrentRunsOf(w)
        /\ (mode = ConflictResolveWorkflowModeUpdateCurrent /\ currentState = Nil) =>
              r \in CurrentRunsOf(w)
        /\ currentState # Nil => CurrentRunsOf(w) \notin {{}, {r}}
        /\ newState # Nil => FreeRunIDs(w) # {}
        /\ UNCHANGED exceptStore
        /\ IF ValidateConflictResolveWorkflowModeState(mode, resetState, newState, currentState)
           THEN Reject("conflictResolve", mode, "InvalidModeState")
           ELSE IF executions[<<w, r>>] = Nil
           THEN Reject("conflictResolve", mode, "NotFound")
           ELSE /\ executions' =
                      [k \in WorkflowIDs \X RunIDs |->
                          IF k = <<w, r>> THEN resetState
                          ELSE IF newState # Nil /\ k = <<w, NewRunID(w)>> THEN newState
                          ELSE IF currentState # Nil /\ k \in currentExecutions /\ k[1] = w
                               THEN currentState
                          ELSE executions[k]]
                /\ currentExecutions' =
                      IF mode = ConflictResolveWorkflowModeUpdateCurrent
                      THEN SetCurrent(w, IF newState # Nil THEN NewRunID(w) ELSE r)
                      ELSE currentExecutions
                /\ lastOp' = Result("conflictResolve", mode, "ok")

Next ==
    \/ createExecution
    \/ updateExecution
    \/ conflictResolveExecution

Spec == Init /\ [][Next]_vars

----------------------------------------------------------------------------
(* Calls on the shards table.  Every call runs inside a transaction of the   *)
(* caller; a call that has to wait for a row lock is not enabled until the   *)
(* lock is released; row locks are held until the transaction ends.          *)

ShardResult(op, t, s, result) == [op |-> op, result |-> result]

\* the row of shard s as transaction t sees it
VisibleRow(t, s) == IF txWrites[t][s] # NoRow THEN txWrites[t][s] ELSE shards[s]

\* two row locks of different transactions conflict unless both are shared
Conflicts(clause, held) == clause = ForUpdate \/ held = ForUpdate

\* transaction t has to wait to lock the row of s with this clause
Blocked(t, s, clause) ==
    /\ clause # NoLockClause
    /\ \E l \in rowLocks[s] : l[1] # t /\ Conflicts(clause, l[3])

Locked(t, s, api, clause) ==
    IF clause = NoLockClause
    THEN rowLocks
    ELSE [rowLocks EXCEPT ![s] = @ \cup {<<t, api, clause>>}]

Released(t) == [s \in ShardIDs |-> {l \in rowLocks[s] : l[1] # t}]

BeginTx ==
    \E t \in Txns :
        /\ txState[t] = "idle"
        /\ txState' = [txState EXCEPT ![t] = "active"]
        /\ lastShardOp' = ShardResult("BeginTx", t, 0, "ok")
        /\ UNCHANGED <<shards, txWrites, txToken, rowLocks>>
        /\ UNCHANGED domainVars
        /\ UNCHANGED exceptTables

EndTx(t) ==
    /\ txState' = [txState EXCEPT ![t] = "idle"]
    /\ txWrites' = [txWrites EXCEPT ![t] = [s \in ShardIDs |-> NoRow]]
    /\ txToken' = [txToken EXCEPT ![t] = [s \in ShardIDs |-> {}]]
    /\ rowLocks' = Released(t)
    /\ txDomainWrites' = [txDomainWrites EXCEPT ![t] = [id \in DomainIDs |-> NoWrite]]
    /\ txMetadata' = [txMetadata EXCEPT ![t] = {}]
    /\ metadataLocks' = {l \in metadataLocks : l[1] # t}
    /\ txPc' = [txPc EXCEPT ![t] = "none"]
    /\ txBumps' = [txBumps EXCEPT ![t] = {}]
    /\ txChanges' = [txChanges EXCEPT ![t] = 0]

\* the steps of a transaction at which its caller commits: a domain mutation
\* is committed only after its last step
CommitPoints_Midway == {"none", "locked", "changed", "bumped"}

CommitPoints == {"none", "bumped"}

\* the commit installs every uncommitted row of the transaction at once
CommitTx ==
    \E t \in Txns :
        /\ txState[t] = "active"
        /\ txPc[t] \in CommitPoints
        /\ shards' = [s \in ShardIDs |->
                         IF txWrites[t][s] # NoRow THEN txWrites[t][s] ELSE shards[s]]
        /\ domains' = [id \in DomainIDs |->
                          IF txDomainWrites[t][id] # NoWrite
                          THEN txDomainWrites[t][id] ELSE domains[id]]
        /\ domainMetadata' =
              IF txMetadata[t] # {} THEN CHOOSE v \in txMetadata[t] : TRUE
              ELSE domainMetadata
        /\ successfulBumps' = [v \in NotificationVersions |->
                                  IF v \in txBumps[t] THEN successfulBumps[v] + 1
                                  ELSE successfulBumps[v]]
        /\ committedChanges' = committedChanges + txChanges[t]
        /\ EndTx(t)
        /\ lastShardOp' = ShardResult("CommitTx", t, 0, "ok")
        /\ UNCHANGED lastDomainOp
        /\ UNCHANGED exceptTables

RollbackTx ==
    \E t \in Txns :
        /\ txState[t] = "active"
        /\ EndTx(t)
        /\ lastShardOp' = ShardResult("RollbackTx", t, 0, "ok")
        /\ UNCHANGED <<shards, domains, domainMetadata, successfulBumps,
                       committedChanges, lastDomainOp>>
        /\ UNCHANGED exceptTables

\* createShardQry: INSERT INTO shards (shard_id, range_id, data, data_encoding)
createShardQry(t, s, row) ==
    IF VisibleRow(t, s) # NoRow
    THEN /\ lastShardOp' = ShardResult("InsertIntoShards", t, s, "AlreadyExists")
         /\ UNCHANGED <<txWrites, rowLocks>>
    ELSE /\ txWrites' = [txWrites EXCEPT ![t][s] = row]
         /\ rowLocks' = Locked(t, s, "InsertIntoShards", ForUpdate)
         /\ lastShardOp' = ShardResult("InsertIntoShards", t, s, "ok")

InsertIntoShards ==
    \E t \in Txns, s \in ShardIDs, row \in ShardsRows :
        /\ txState[t] = "active"
        /\ ~Blocked(t, s, ForUpdate)
        /\ createShardQry(t, s, row)
        /\ UNCHANGED <<shards, txState, txToken>>
        /\ UNCHANGED exceptShards

\* the UPDATE without its WHERE clause: every row of the table is written
updateShardQry_NoWhere(t, s, row) ==
    IF VisibleRow(t, s) = NoRow
    THEN /\ lastShardOp' = ShardResult("UpdateShards", t, s, "NoRowsAffected")
         /\ UNCHANGED <<txWrites, rowLocks>>
    ELSE /\ txWrites' = [txWrites EXCEPT ![t] =
                            [q \in ShardIDs |->
                                IF VisibleRow(t, q) = NoRow THEN txWrites[t][q] ELSE row]]
         /\ rowLocks' = [q \in ShardIDs |->
                            IF VisibleRow(t, q) = NoRow THEN rowLocks[q]
                            ELSE rowLocks[q] \cup {<<t, "UpdateShards", ForUpdate>>}]
         /\ lastShardOp' = ShardResult("UpdateShards", t, s, "ok")

\* updateShardQry: UPDATE shards SET range_id = $1, data = $2,
\* data_encoding = $3 WHERE shard_id = $4
updateShardQry(t, s, row) ==
    IF VisibleRow(t, s) = NoRow
    THEN /\ lastShardOp' = ShardResult("UpdateShards", t, s, "NoRowsAffected")
         /\ UNCHANGED <<txWrites, rowLocks>>
    ELSE /\ txWrites' = [txWrites EXCEPT ![t][s] = row]
         /\ rowLocks' = Locked(t, s, "UpdateShards", ForUpdate)
         /\ lastShardOp' = ShardResult("UpdateShards", t, s, "ok")

UpdateShards ==
    \E t \in Txns, s \in ShardIDs, row \in ShardsRows :
        /\ txState[t] = "active"
        /\ txToken[t][s] = {}
        /\ ~Blocked(t, s, ForUpdate)
        /\ updateShardQry(t, s, row)
        /\ UNCHANGED <<shards, txState, txToken>>
        /\ UNCHANGED exceptShards

\* SELECT range_id FROM shards WHERE shard_id = $1 with a row-locking clause
SelectRangeID(t, s, api, clause) ==
    IF VisibleRow(t, s) = NoRow
    THEN /\ lastShardOp' = ShardResult(api, t, s, "NotFound")
         /\ UNCHANGED rowLocks
    ELSE /\ rowLocks' = Locked(t, s, api, clause)
         /\ lastShardOp' = ShardResult(api, t, s, "ok")

ReadLockShards ==
    \E t \in Txns, s \in ShardIDs :
        /\ txState[t] = "active"
        /\ ~Blocked(t, s, readLockShardQry)
        /\ SelectRangeID(t, s, "ReadLockShards", readLockShardQry)
        /\ UNCHANGED <<shards, txState, txWrites, txToken>>
        /\ UNCHANGED exceptShards

WriteLockShards ==
    \E t \in Txns, s \in ShardIDs :
        /\ txState[t] = "active"
        /\ ~Blocked(t, s, lockShardQry)
        /\ SelectRangeID(t, s, "WriteLockShards", lockShardQry)
        /\ UNCHANGED <<shards, txState, txWrites, txToken>>
        /\ UNCHANGED exceptShards

\* Fenced write of the shard lease, first half: lock the row, read its
\* range_id and compare it with the range_id the caller presents.  A mismatch
\* is Fenced and ends the transaction without a write.
acquireOrVerify ==
    \E t \in Txns, s \in ShardIDs, expectedRangeID \in RangeIDs :
        /\ txState[t] = "active"
        /\ txToken[t][s] = {}
        /\ txWrites[t][s] = NoRow
        /\ shards[s] # NoRow
        /\ ~Blocked(t, s, lockShardQry)
        /\ IF shards[s].range_id # expectedRangeID
           THEN /\ EndTx(t)
                /\ lastShardOp' = ShardResult("acquireOrVerify", t, s, "Fenced")
                /\ UNCHANGED <<domains, domainMetadata, successfulBumps,
                               committedChanges, lastDomainOp>>
           ELSE /\ rowLocks' = Locked(t, s, "WriteLockShards", lockShardQry)
                /\ txToken' = [txToken EXCEPT ![t][s] = {expectedRangeID}]
                /\ lastShardOp' = ShardResult("acquireOrVerify", t, s, "ok")
                /\ UNCHANGED <<txState, txWrites>>
                /\ UNCHANGED domainVars
        /\ UNCHANGED shards
        /\ UNCHANGED exceptTables

\* Fenced write, second half: the transaction that verified range_id N writes
\* the row with range_id N (checkpoint) or N + 1 (ownership transfer).
fencedUpdateShards ==
    \E t \in Txns, s \in ShardIDs, row \in ShardsRows :
        /\ txState[t] = "active"
        /\ txToken[t][s] # {}
        /\ \E n \in txToken[t][s] : row.range_id \in {n, n + 1}
        /\ ~Blocked(t, s, ForUpdate)
        /\ updateShardQry(t, s, row)
        /\ UNCHANGED <<shards, txState, txToken>>
        /\ UNCHANGED exceptShards

NextShards ==
    \/ BeginTx
    \/ CommitTx
    \/ RollbackTx
    \/ InsertIntoShards
    \/ UpdateShards
    \/ ReadLockShards
    \/ WriteLockShards
    \/ acquireOrVerify
    \/ fencedUpdateShards

SpecShards == Init /\ [][NextShards]_vars

\* The four calls of the shards table over a table with one shard more, so
\* that each shard has another beside it.  The first shard has no row yet,
\* the others have the row an earlier transaction committed; the calls write
\* and lock within their transaction, which releases its locks when it ends.
InitIndependent ==
    InitOver([s \in 1..(NumShards + 1) |->
                 IF s = 1 THEN NoRow ELSE ShardsRow(0, "d1", "thriftrw")],
             [id \in DomainIDs |-> NoRow])

NextIndependent ==
    \/ BeginTx
    \/ RollbackTx
    \/ InsertIntoShards
    \/ UpdateShards
    \/ ReadLockShards
    \/ WriteLockShards

SpecIndependent == InitIndependent /\ [][NextIndependent]_vars

----------------------------------------------------------------------------
(* Calls on the domain tables (sqlplugin/postgres/domain.go)                 *)

DomainResult(op, version, rows, result) ==
    [op |-> op, version |-> version, rows |-> rows, result |-> result]

\* the domain row a transaction reads: its own uncommitted row, else the
\* committed one
VisibleDomain(t, id) ==
    IF txDomainWrites[t][id] # NoWrite THEN txDomainWrites[t][id] ELSE domains[id]

\* the notification_version a transaction reads
VisibleMetadata(t) ==
    IF txMetadata[t] # {} THEN CHOOSE v \in txMetadata[t] : TRUE ELSE domainMetadata

\* the domain_metadata row is locked by another transaction
MetadataBlocked(t) == \E l \in metadataLocks : l[1] # t

\* another transaction holds an uncommitted write of the row or of the name
DomainBlocked(t, id, name) ==
    \E u \in Txns \ {t} :
        \/ txDomainWrites[u][id] # NoWrite
        \/ \E j \in DomainIDs :
              /\ txDomainWrites[u][j] # NoWrite
              /\ \/ /\ txDomainWrites[u][j] \in DomainRows
                    /\ txDomainWrites[u][j].name = name
                 \/ /\ domains[j] \in DomainRows
                    /\ domains[j].name = name

NameTaken_NoIndex(t, id, name) == FALSE

\* the name is taken by a different row the transaction can see
NameTaken(t, id, name) ==
    \E j \in DomainIDs \ {id} :
        /\ VisibleDomain(t, j) # NoRow
        /\ VisibleDomain(t, j).name = name

lockDomainMetadataQuery_NoLock == NoLockClause

lockDomainMetadataQuery == ForUpdate

getDomainMetadataQuery == NoLockClause

\* INSERT INTO domains (id, name, is_global, data, data_encoding)
createDomainQuery(t, id, row) ==
    IF VisibleDomain(t, id) # NoRow \/ NameTaken(t, id, row.name)
    THEN /\ lastDomainOp' = DomainResult("InsertIntoDomain", 0, 0, "AlreadyExists")
         /\ UNCHANGED txDomainWrites
    ELSE /\ txDomainWrites' = [txDomainWrites EXCEPT ![t][id] = row]
         /\ lastDomainOp' = DomainResult("InsertIntoDomain", 0, 1, "ok")

\* UPDATE domains SET name = $1, data = $2, data_encoding = $3 WHERE ... id = $4
updateDomainQuery(t, id, row) ==
    IF VisibleDomain(t, id) = NoRow
    THEN /\ lastDomainOp' = DomainResult("UpdateDomain", 0, 0, "ok")
         /\ UNCHANGED txDomainWrites
    ELSE IF NameTaken(t, id, row.name)
    THEN /\ lastDomainOp' = DomainResult("UpdateDomain", 0, 0, "AlreadyExists")
         /\ UNCHANGED txDomainWrites
    ELSE /\ txDomainWrites' = [txDomainWrites EXCEPT ![t][id] = row]
         /\ lastDomainOp' = DomainResult("UpdateDomain", 0, 1, "ok")

\* the set of rows the WHERE clause of the counter update matches
updateDomainMetadataQuery_NoWhere(t, expected) == TRUE

updateDomainMetadataQuery(t, expected) == VisibleMetadata(t) = expected

\* the value the counter update writes, from row.NotificationVersion
bumpedVersion_Mutant(notificationVersion) == notificationVersion + 2

bumpedVersion(notificationVersion) == notificationVersion + 1

\* the caller of UpdateDomainMetadata reads the rows affected
bumpOutcome(rows) == IF rows = 1 THEN "ok" ELSE "VersionConflict"

\* the rows affected by UpdateDomainMetadata
bumpRows(t, notificationVersion) ==
    IF updateDomainMetadataQuery(t, notificationVersion) THEN 1 ELSE 0

\* the effect of UpdateDomainMetadata on the transaction
bump(t, notificationVersion) ==
    IF bumpRows(t, notificationVersion) = 1
    THEN /\ txMetadata' = [txMetadata EXCEPT ![t] = {bumpedVersion(notificationVersion)}]
         /\ txBumps' = [txBumps EXCEPT ![t] = @ \cup {notificationVersion}]
         /\ metadataLocks' = metadataLocks \cup {<<t, "UpdateDomainMetadata", ForUpdate>>}
    ELSE UNCHANGED <<txMetadata, txBumps, metadataLocks>>

metadataLocked(t, api, clause) ==
    IF clause = NoLockClause THEN metadataLocks
    ELSE metadataLocks \cup {<<t, api, clause>>}

\* what LockDomainMetadata hands back besides the error: the version is
\* scanned into a local row that is not returned
LockDomainMetadataRow(t) == {}

\* what SelectFromDomainMetadata hands back besides the error: &row
SelectFromDomainMetadataRow(t) == {VisibleMetadata(t)}

LockDomainMetadata ==
    \E t \in Txns :
        /\ txState[t] = "active"
        /\ txPc[t] = "none"
        /\ ~MetadataBlocked(t)
        /\ metadataLocks' = metadataLocked(t, "LockDomainMetadata", lockDomainMetadataQuery)
        /\ metadataRow' = LockDomainMetadataRow(t)
        /\ lastDomainOp' = DomainResult("LockDomainMetadata", 0, 1, "ok")
        /\ UNCHANGED <<domains, domainMetadata, txDomainWrites, txMetadata, txPc,
                       txBumps, txChanges, successfulBumps, committedChanges>>
        /\ UNCHANGED shardVars
        /\ UNCHANGED <<validatorVars, storeVars, operationVars, selected, paging>>

SelectFromDomainMetadata ==
    \E t \in Txns :
        /\ txState[t] = "active"
        /\ txPc[t] = "none"
        /\ metadataRow' = SelectFromDomainMetadataRow(t)
        /\ lastDomainOp' = DomainResult("SelectFromDomainMetadata", VisibleMetadata(t), 1, "ok")
        /\ UNCHANGED <<domains, domainMetadata, txDomainWrites, txMetadata, metadataLocks,
                       txPc, txBumps, txChanges, successfulBumps, committedChanges>>
        /\ UNCHANGED shardVars
        /\ UNCHANGED <<validatorVars, storeVars, operationVars, selected, paging>>

UpdateDomainMetadata ==
    \E t \in Txns, notificationVersion \in NotificationVersions :
        /\ txState[t] = "active"
        /\ txPc[t] = "none"
        /\ notificationVersion < MaxVersion
        /\ ~MetadataBlocked(t)
        /\ bump(t, notificationVersion)
        /\ lastDomainOp' = DomainResult("UpdateDomainMetadata", notificationVersion,
                                        bumpRows(t, notificationVersion),
                                        bumpOutcome(bumpRows(t, notificationVersion)))
        /\ UNCHANGED <<domains, domainMetadata, txDomainWrites, txPc, txChanges,
                       successfulBumps, committedChanges>>
        /\ UNCHANGED shardVars
        /\ UNCHANGED exceptTables

NextDomain ==
    \/ BeginTx
    \/ CommitTx
    \/ RollbackTx
    \/ LockDomainMetadata
    \/ SelectFromDomainMetadata
    \/ UpdateDomainMetadata

SpecDomain == Init /\ [][NextDomain]_vars

----------------------------------------------------------------------------
(* Calls on the domains table (sqlplugin/postgres/domain.go).  An argument   *)
(* that is a pointer in the source is a set here: empty for nil, else        *)
(* holding the value it points to.                                           *)

Optional(S) == {{}} \cup {{v} : v \in S}

Deref(p) == CHOOSE v \in p : TRUE

PageSizes == (-1)..MaxPageSize

\* sqlplugin.DomainFilter
DomainFilters ==
    [ID : Optional(DomainIDs), Name : Optional(DomainNames),
     PageSize : Optional(PageSizes), GreaterThanID : Optional(DomainIDs)]

shardID == 54321

\* the shard_id a row of domains gets when the INSERT names none
domainsShardIDDefault == 54321

errMissingArgs == "missing one or more args for API"

ErrNoRows == "sql: no rows in result set"

\* a row as SelectFromDomain returns it
SelectedRow(t, id) ==
    [id |-> id, name |-> VisibleDomain(t, id).name, data |-> VisibleDomain(t, id).data]

\* the stored rows a transaction can see whose shard_id is the one given
RowsOfShard(t, shard) ==
    {id \in DomainIDs : VisibleDomain(t, id) # NoRow /\ domainsShardIDDefault = shard}

\* WHERE shard_id=$1 AND id = $2
getDomainByIDQuery(t, shard, id) == {j \in RowsOfShard(t, shard) : j = id}

getDomainByNameQuery_NoName(t, shard, name) == RowsOfShard(t, shard)

\* WHERE shard_id=$1 AND name = $2
getDomainByNameQuery(t, shard, name) ==
    {j \in RowsOfShard(t, shard) : VisibleDomain(t, j).name = name}

RECURSIVE OrderByID(_)
OrderByID(ids) ==
    IF ids = {} THEN <<>>
    ELSE LET least == CHOOSE i \in ids : \A j \in ids : i <= j
         IN  <<least>> \o OrderByID(ids \ {least})

\* ORDER BY id LIMIT n
Limit(ids, n) ==
    LET ordered == OrderByID(ids)
    IN  IF n <= 0 THEN <<>>
        ELSE IF n >= Len(ordered) THEN ordered
        ELSE SubSeq(ordered, 1, n)

\* WHERE shard_id=$1 ORDER BY id LIMIT $2
listDomainsQuery(t, shard, pageSize) == Limit(RowsOfShard(t, shard), pageSize)

listDomainsRangeQuery_NotStrict(t, shard, greaterThanID, pageSize) ==
    Limit({j \in RowsOfShard(t, shard) : j >= greaterThanID}, pageSize)

\* WHERE shard_id=$1 AND id > $2 ORDER BY id LIMIT $3
listDomainsRangeQuery(t, shard, greaterThanID, pageSize) ==
    Limit({j \in RowsOfShard(t, shard) : j > greaterThanID}, pageSize)

\* the outcomes of selectFromDomain: GetContext scans one row of the result,
\* and reports ErrNoRows for an empty result.  An outcome holds the rows and
\* the error returned and the queries issued.
selectFromDomain(t, filter) ==
    LET found == IF filter.ID # {}
                 THEN getDomainByIDQuery(t, shardID, Deref(filter.ID))
                 ELSE getDomainByNameQuery(t, shardID, Deref(filter.Name))
        query == IF filter.ID # {} THEN "getDomainByIDQuery" ELSE "getDomainByNameQuery"
    IN  IF found = {} THEN {[rows |-> <<>>, err |-> ErrNoRows, queries |-> {query}]}
        ELSE {[rows |-> <<SelectedRow(t, j)>>, err |-> Nil, queries |-> {query}] :
                 j \in found}

selectAllFromDomain(t, filter) ==
    LET ids == IF filter.GreaterThanID # {}
               THEN listDomainsRangeQuery(t, shardID, Deref(filter.GreaterThanID),
                                          Deref(filter.PageSize))
               ELSE listDomainsQuery(t, shardID, Deref(filter.PageSize))
        query == IF filter.GreaterThanID # {} THEN "listDomainsRangeQuery"
                 ELSE "listDomainsQuery"
    IN  {[rows |-> [i \in 1..Len(ids) |-> SelectedRow(t, ids[i])], err |-> Nil,
          queries |-> {query}]}

\* the switch with the page size tested first
SelectFromDomainResults_PageSizeFirst(t, filter) ==
    IF filter.PageSize # {} /\ Deref(filter.PageSize) > 0
    THEN selectAllFromDomain(t, filter)
    ELSE IF filter.ID # {} \/ filter.Name # {}
    THEN selectFromDomain(t, filter)
    ELSE {[rows |-> <<>>, err |-> errMissingArgs, queries |-> {}]}

\* the outcomes of SelectFromDomain for a filter
SelectFromDomainResults(t, filter) ==
    IF filter.ID # {} \/ filter.Name # {}
    THEN selectFromDomain(t, filter)
    ELSE IF filter.PageSize # {} /\ Deref(filter.PageSize) > 0
    THEN selectAllFromDomain(t, filter)
    ELSE {[rows |-> <<>>, err |-> errMissingArgs, queries |-> {}]}

\* what SelectFromDomain hands back to its caller
Returned(outcomes) == {[rows |-> o.rows, err |-> o.err] : o \in outcomes}

\* the rows DeleteFromDomain removes: by id when the filter has one, else by
\* name; a nil name matches no row
deleteDomainQuery(t, filter) ==
    IF filter.ID # {} THEN getDomainByIDQuery(t, shardID, Deref(filter.ID))
    ELSE IF filter.Name # {} THEN getDomainByNameQuery(t, shardID, Deref(filter.Name))
    ELSE {}

InsertIntoDomain ==
    \E t \in Txns, id \in DomainIDs, row \in DomainRows :
        /\ txState[t] = "active"
        /\ txPc[t] = "none"
        /\ ~DomainBlocked(t, id, row.name)
        /\ createDomainQuery(t, id, row)
        /\ UNCHANGED <<domains, domainMetadata, txMetadata, metadataLocks, txPc,
                       txBumps, txChanges, successfulBumps, committedChanges>>
        /\ UNCHANGED shardVars
        /\ UNCHANGED exceptTables

UpdateDomain ==
    \E t \in Txns, id \in DomainIDs, row \in DomainRows :
        /\ txState[t] = "active"
        /\ txPc[t] = "none"
        /\ ~DomainBlocked(t, id, row.name)
        /\ updateDomainQuery(t, id, row)
        /\ UNCHANGED <<domains, domainMetadata, txMetadata, metadataLocks, txPc,
                       txBumps, txChanges, successfulBumps, committedChanges>>
        /\ UNCHANGED shardVars
        /\ UNCHANGED exceptTables

\* the filter of DeleteFromDomain: ID and Name are the fields it reads
DeleteFilter(id, name) ==
    [ID |-> id, Name |-> name, PageSize |-> {}, GreaterThanID |-> {}]

DeleteFromDomain ==
    \E t \in Txns, id \in Optional(DomainIDs), name \in Optional(DomainNames) :
        /\ txState[t] = "active"
        /\ txPc[t] = "none"
        /\ \A j \in deleteDomainQuery(t, DeleteFilter(id, name)) :
              ~DomainBlocked(t, j, VisibleDomain(t, j).name)
        /\ txDomainWrites' =
              [txDomainWrites EXCEPT ![t] =
                  [j \in DomainIDs |->
                      IF j \in deleteDomainQuery(t, DeleteFilter(id, name))
                      THEN NoRow ELSE @[j]]]
        /\ lastDomainOp' =
              DomainResult("DeleteFromDomain", 0,
                           Cardinality(deleteDomainQuery(t, DeleteFilter(id, name))), "ok")
        /\ UNCHANGED <<domains, domainMetadata, txMetadata, metadataLocks, txPc,
                       txBumps, txChanges, successfulBumps, committedChanges>>
        /\ UNCHANGED shardVars
        /\ UNCHANGED <<validatorVars, storeVars, operationVars, queryVars>>

\* one call of SelectFromDomain by transaction t
selectCall(t, filter) ==
    /\ txPc[t] = "none"
    /\ \E o \in SelectFromDomainResults(t, filter) :
          selected' = [rows |-> o.rows, err |-> o.err, queries |-> o.queries,
                       filter |-> {filter}]
    /\ lastDomainOp' = DomainResult("SelectFromDomain", 0, Len(selected'.rows),
                                    IF selected'.err = Nil THEN "ok" ELSE selected'.err)
    /\ UNCHANGED <<domains, domainMetadata, txDomainWrites, txMetadata, metadataLocks,
                   txPc, txBumps, txChanges, successfulBumps, committedChanges>>
    /\ UNCHANGED shardVars
    /\ UNCHANGED <<validatorVars, storeVars, operationVars, metadataRow>>

\* a call with any filter, made while no enumeration is under way; the calls
\* of an enumeration are listFirstPage and listNextPage
SelectFromDomain ==
    \E t \in Txns, filter \in DomainFilters :
        /\ paging.state = "idle"
        /\ selectCall(t, filter)
        /\ UNCHANGED paging

NextDomainRows ==
    \/ BeginTx
    \/ CommitTx
    \/ RollbackTx
    \/ InsertIntoDomain
    \/ UpdateDomain
    \/ DeleteFromDomain

SpecDomainRows == Init /\ [][NextDomainRows]_vars

----------------------------------------------------------------------------
(* Reading the domains table: single calls of SelectFromDomain with any      *)
(* filter, and the enumeration of the table page by page.  The table is as   *)
(* earlier transactions left it and is not written meanwhile.                *)

\* the tables the unique key on name allows
DomainTables ==
    {rows \in [DomainIDs -> DomainRows \cup {NoRow}] :
        \A i, j \in DomainIDs :
            (rows[i] # NoRow /\ rows[j] # NoRow /\ rows[i].name = rows[j].name) => i = j}

InitSelect ==
    \E rows \in DomainTables : InitOver([s \in 1..NumShards |-> NoRow], rows)

PageFilter(pageSize, greaterThanID) ==
    [ID |-> {}, Name |-> {}, PageSize |-> {pageSize}, GreaterThanID |-> greaterThanID]

\* the ids of the rows of a page, in the order returned
PageIDs(rows) == [i \in 1..Len(rows) |-> rows[i].id]

\* the enumeration goes on after a full page and ends with a page that holds
\* fewer rows than asked for
Fetched(pageSize, pages, rows) ==
    [state |-> IF Len(rows) < pageSize THEN "done" ELSE "paging",
     pageSize |-> pageSize,
     pages |-> Append(pages, PageIDs(rows))]

\* the first page: GreaterThanID is unset
listFirstPage ==
    \E t \in Txns, pageSize \in 1..MaxPageSize :
        /\ paging.state # "paging"
        /\ selectCall(t, PageFilter(pageSize, {}))
        /\ paging' = Fetched(pageSize, <<>>, selected'.rows)

\* a further page: GreaterThanID is the last id of the page before
listNextPage ==
    \E t \in Txns :
        /\ paging.state = "paging"
        /\ LET previous == paging.pages[Len(paging.pages)]
           IN  selectCall(t, PageFilter(paging.pageSize, {previous[Len(previous)]}))
        /\ paging' = Fetched(paging.pageSize, paging.pages, selected'.rows)

NextSelect ==
    \/ SelectFromDomain
    \/ listFirstPage
    \/ listNextPage

SpecSelect == InitSelect /\ [][NextSelect]_vars

----------------------------------------------------------------------------
(* Domain mutation: lock the counter, change the domain record, bump the     *)
(* counter, all in one transaction                                           *)

DomainChanges == {"InsertIntoDomain", "UpdateDomain"}

beginDomainMutation ==
    \E t \in Txns :
        /\ txState[t] = "idle"
        /\ txState' = [txState EXCEPT ![t] = "active"]
        /\ txPc' = [txPc EXCEPT ![t] = "start"]
        /\ lastShardOp' = ShardResult("BeginTx", t, 0, "ok")
        /\ UNCHANGED <<shards, txWrites, txToken, rowLocks>>
        /\ UNCHANGED <<domains, domainMetadata, txDomainWrites, txMetadata, metadataLocks,
                       txBumps, txChanges, successfulBumps, committedChanges, lastDomainOp>>
        /\ UNCHANGED exceptTables

mutationLock ==
    \E t \in Txns :
        /\ txState[t] = "active"
        /\ txPc[t] = "start"
        /\ ~MetadataBlocked(t)
        /\ metadataLocks' = metadataLocked(t, "LockDomainMetadata", lockDomainMetadataQuery)
        /\ txPc' = [txPc EXCEPT ![t] = "locked"]
        /\ metadataRow' = LockDomainMetadataRow(t)
        /\ lastDomainOp' = DomainResult("LockDomainMetadata", 0, 1, "ok")
        /\ UNCHANGED <<domains, domainMetadata, txDomainWrites, txMetadata,
                       txBumps, txChanges, successfulBumps, committedChanges>>
        /\ UNCHANGED shardVars
        /\ UNCHANGED <<validatorVars, storeVars, operationVars, selected, paging>>

\* a record change that fails or matches no row ends the mutation
mutationChange ==
    \E t \in Txns, change \in DomainChanges, id \in DomainIDs, row \in DomainRows :
        /\ txState[t] = "active"
        /\ txPc[t] = "locked"
        /\ ~DomainBlocked(t, id, row.name)
        /\ LET applied ==
                  /\ ~NameTaken(t, id, row.name)
                  /\ (change = "InsertIntoDomain") = (VisibleDomain(t, id) = NoRow)
           IN  IF applied
               THEN /\ IF change = "InsertIntoDomain"
                       THEN createDomainQuery(t, id, row)
                       ELSE updateDomainQuery(t, id, row)
                    /\ txPc' = [txPc EXCEPT ![t] = "changed"]
                    /\ txChanges' = [txChanges EXCEPT ![t] = @ + 1]
                    /\ UNCHANGED <<txMetadata, metadataLocks, txBumps>>
                    /\ UNCHANGED shardVars
               ELSE /\ EndTx(t)
                    /\ lastDomainOp' = DomainResult(change, 0, 0,
                           IF change = "InsertIntoDomain" \/ NameTaken(t, id, row.name)
                           THEN "AlreadyExists" ELSE "NotFound")
                    /\ UNCHANGED <<shards, lastShardOp>>
        /\ UNCHANGED <<domains, domainMetadata, successfulBumps, committedChanges>>
        /\ UNCHANGED exceptTables

\* a bump that matches no row is a VersionConflict and ends the mutation
mutationBump ==
    \E t \in Txns, notificationVersion \in NotificationVersions :
        /\ txState[t] = "active"
        /\ txPc[t] = "changed"
        /\ notificationVersion < MaxVersion
        /\ ~MetadataBlocked(t)
        /\ lastDomainOp' = DomainResult("UpdateDomainMetadata", notificationVersion,
                                        bumpRows(t, notificationVersion),
                                        bumpOutcome(bumpRows(t, notificationVersion)))
        /\ IF bumpRows(t, notificationVersion) = 1
           THEN /\ bump(t, notificationVersion)
                /\ txPc' = [txPc EXCEPT ![t] = "bumped"]
                /\ UNCHANGED <<txDomainWrites, txChanges>>
                /\ UNCHANGED shardVars
           ELSE /\ EndTx(t)
                /\ UNCHANGED <<shards, lastShardOp>>
        /\ UNCHANGED <<domains, domainMetadata, successfulBumps, committedChanges>>
        /\ UNCHANGED exceptTables

NextMutations ==
    \/ beginDomainMutation
    \/ mutationLock
    \/ mutationChange
    \/ mutationBump
    \/ CommitTx
    \/ RollbackTx

SpecMutations == Init /\ [][NextMutations]_vars

----------------------------------------------------------------------------
(* Requests through the facade: every request presents the range_id its      *)
(* caller believes is current for the shard                                  *)

tokenMatches_Mutant(s, expectedRangeID) == TRUE

tokenMatches(s, expectedRangeID) ==
    /\ shards[s] # NoRow
    /\ shards[s].range_id = expectedRangeID

\* the request is passed on only when the presented range_id is the stored one
fenced(guardedRequest, op) ==
    \E s \in ShardIDs, expectedRangeID \in RangeIDs :
        IF tokenMatches(s, expectedRangeID)
        THEN guardedRequest
        ELSE /\ Reject(op, "none", "Fenced")
             /\ UNCHANGED exceptStore

fencedCreateExecution == fenced(createExecution, "create")

fencedUpdateExecution == fenced(updateExecution, "update")

fencedConflictResolveExecution == fenced(conflictResolveExecution, "conflictResolve")

\* a new owner takes the shard: the row is created at bootstrap, afterwards
\* every transfer raises range_id by one and keeps the opaque state
transferOwnership ==
    \E s \in ShardIDs :
        /\ \A t \in Txns : txState[t] = "idle"
        /\ shards[s] # NoRow => shards[s].range_id < MaxRangeID
        /\ shards' = [shards EXCEPT ![s] =
                         IF shards[s] = NoRow
                         THEN ShardsRow(0, CHOOSE d \in ShardData : TRUE,
                                        CHOOSE e \in ShardEncodings : TRUE)
                         ELSE [shards[s] EXCEPT !.range_id = @ + 1]]
        /\ lastOp' = Result("transferOwnership", "none", "ok")
        /\ UNCHANGED <<executions, currentExecutions>>
        /\ UNCHANGED <<txState, txWrites, txToken, rowLocks, lastShardOp>>
        /\ UNCHANGED <<validatorVars, queryVars, domainVars, operationVars>>

NextFacade ==
    \/ fencedCreateExecution
    \/ fencedUpdateExecution
    \/ fencedConflictResolveExecution
    \/ transferOwnership

SpecFacade == Init /\ [][NextFacade]_vars

----------------------------------------------------------------------------
(* A write operation of the facade, step by step: inside one transaction it  *)
(* verifies the range_id of the shard, writes the shard row and moves the    *)
(* current pointer; its caller may cancel it at any step before the commit   *)

\* the shard a workflow identity hashes to
ShardOf(w) == CHOOSE s \in ShardIDs : \A q \in ShardIDs : s <= q

\* the pointer table once the uncommitted pointer row of t is installed
PointerAfter(t) ==
    IF txPointer[t] = {} THEN currentExecutions
    ELSE LET row == CHOOSE x \in txPointer[t] : TRUE IN SetCurrent(row[1], row[2])

\* the execution records once the uncommitted run of t is installed
ExecutionsAfter(t) ==
    IF txPointer[t] = {} THEN executions
    ELSE LET row == CHOOSE x \in txPointer[t] : TRUE
         IN  [executions EXCEPT ![row] = WorkflowStateRunning]

\* the shards table once the uncommitted rows of t are installed
ShardsAfter(t) ==
    [s \in ShardIDs |-> IF txWrites[t][s] # NoRow THEN txWrites[t][s] ELSE shards[s]]

currentPointerWrite_Unbuffered(t, w, r) ==
    /\ executions' = [executions EXCEPT ![<<w, r>>] = WorkflowStateRunning]
    /\ currentExecutions' = SetCurrent(w, r)
    /\ UNCHANGED txPointer

\* the pointer row is written inside the transaction
currentPointerWrite(t, w, r) ==
    /\ txPointer' = [txPointer EXCEPT ![t] = {<<w, r>>}]
    /\ UNCHANGED <<executions, currentExecutions>>

writeCurrentPointer ==
    \E t \in Txns, w \in WorkflowIDs :
        /\ txState[t] = "active"
        /\ txToken[t][ShardOf(w)] # {}
        /\ txPointer[t] = {}
        /\ FreeRunIDs(w) # {}
        /\ currentPointerWrite(t, w, NewRunID(w))
        /\ lastShardOp' = ShardResult("writeCurrentPointer", t, ShardOf(w), "ok")
        /\ UNCHANGED <<shards, txState, txWrites, txToken, rowLocks>>
        /\ UNCHANGED <<validatorVars, queryVars, lastOp, domainVars, lastWrite>>

\* how far the operation had come
Progress(t) ==
    IF txPointer[t] # {} /\ \E s \in ShardIDs : txWrites[t][s] # NoRow
    THEN "after both writes"
    ELSE IF txPointer[t] # {} THEN "after the pointer write"
    ELSE IF \E s \in ShardIDs : txWrites[t][s] # NoRow THEN "after the shard write"
    ELSE "before the writes"

\* the commit point: every uncommitted row of the operation becomes durable
commitOperation ==
    \E t \in Txns :
        /\ txState[t] = "active"
        /\ shards' = ShardsAfter(t)
        /\ currentExecutions' = PointerAfter(t)
        /\ executions' = ExecutionsAfter(t)
        /\ EndTx(t)
        /\ txPointer' = [txPointer EXCEPT ![t] = {}]
        /\ lastShardOp' = ShardResult("commitOperation", t, 0, Progress(t))
        /\ UNCHANGED <<domains, domainMetadata, successfulBumps, committedChanges,
                       lastDomainOp>>
        /\ UNCHANGED <<validatorVars, queryVars, lastOp, lastWrite>>

\* cancellation: the transaction is rolled back
cancelOperation ==
    \E t \in Txns :
        /\ txState[t] = "active"
        /\ EndTx(t)
        /\ txPointer' = [txPointer EXCEPT ![t] = {}]
        /\ lastShardOp' = ShardResult("cancelOperation", t, 0, Progress(t))
        /\ UNCHANGED <<shards, domains, domainMetadata, successfulBumps,
                       committedChanges, lastDomainOp>>
        /\ UNCHANGED <<validatorVars, queryVars, storeVars, lastWrite>>

NextOperations ==
    \/ transferOwnership
    \/ BeginTx
    \/ acquireOrVerify
    \/ fencedUpdateShards
    \/ writeCurrentPointer
    \/ commitOperation
    \/ cancelOperation

SpecOperations == Init /\ [][NextOperations]_vars

----------------------------------------------------------------------------
(* A write that was applied is issued again, unchanged except for the        *)
(* range_id / notification version it presents, which is the current one     *)

\* the create modes that write the current pointer
PointerModes ==
    {CreateWorkflowModeBrandNew, CreateWorkflowModeWorkflowIDReuse,
     CreateWorkflowModeContinueAsNew}

NoOpenTransaction == \A t \in Txns : txState[t] = "idle"

ReissuedRun_Fresh(w) == NewRunID(w)

\* the repeated write names the run it named the first time
ReissuedRun(w) == lastWrite.r

\* createExecution for a shard whose current range_id is presented
applyCreate ==
    \E w \in WorkflowIDs, mode \in PointerModes, newState \in WorkflowStates :
        /\ NoOpenTransaction
        /\ FreeRunIDs(w) # {}
        /\ tokenMatches(ShardOf(w), shards[ShardOf(w)].range_id)
        /\ ~ValidateCreateWorkflowModeState(mode, newState)
        /\ ~(mode = CreateWorkflowModeBrandNew /\ CurrentRunsOf(w) # {})
        /\ createRecord(w, NewRunID(w), mode, newState)
        /\ lastWrite' = [kind |-> "create", issued |-> 1, w |-> w, r |-> NewRunID(w),
                         mode |-> mode, newState |-> newState]
        /\ UNCHANGED <<validatorVars, queryVars, shardVars, domainVars, txPointer>>

\* UpdateShards outside a transaction, writing the current range_id
applyUpdateShards ==
    \E s \in ShardIDs, row \in ShardsRows :
        /\ NoOpenTransaction
        /\ shards[s] # NoRow
        /\ row.range_id = shards[s].range_id
        /\ shards' = [shards EXCEPT ![s] = row]
        /\ lastOp' = Result("UpdateShards", "none", "ok")
        /\ lastWrite' = [kind |-> "UpdateShards", issued |-> 1, s |-> s,
                         data |-> row.data, encoding |-> row.data_encoding]
        /\ UNCHANGED <<executions, currentExecutions>>
        /\ UNCHANGED <<txState, txWrites, txToken, rowLocks, lastShardOp>>
        /\ UNCHANGED <<validatorVars, queryVars, domainVars, txPointer>>

\* UpdateDomainMetadata outside a transaction, presenting notificationVersion
autocommitBump(notificationVersion) ==
    /\ domainMetadata' =
          IF domainMetadata = notificationVersion
          THEN bumpedVersion(notificationVersion) ELSE domainMetadata
    /\ successfulBumps' =
          IF domainMetadata = notificationVersion
          THEN [successfulBumps EXCEPT ![notificationVersion] = @ + 1]
          ELSE successfulBumps
    /\ lastOp' = Result("UpdateDomainMetadata", "none",
                        bumpOutcome(IF domainMetadata = notificationVersion THEN 1 ELSE 0))
    /\ UNCHANGED <<domains, txDomainWrites, txMetadata, metadataLocks, txPc, txBumps,
                   txChanges, committedChanges, lastDomainOp>>

applyUpdateDomainMetadata ==
    /\ NoOpenTransaction
    /\ domainMetadata < MaxVersion
    /\ autocommitBump(domainMetadata)
    /\ lastWrite' = [kind |-> "UpdateDomainMetadata", issued |-> 1]
    /\ UNCHANGED <<executions, currentExecutions>>
    /\ UNCHANGED <<validatorVars, queryVars, shardVars, txPointer>>

\* the same write once more, presenting the range_id / version that is
\* current now
reissue ==
    /\ NoOpenTransaction
    /\ lastWrite.kind # "none"
    /\ lastWrite.issued = 1
    /\ lastWrite' = [lastWrite EXCEPT !.issued = 2]
    /\ UNCHANGED <<validatorVars, queryVars, txPointer>>
    /\ CASE lastWrite.kind = "create" ->
              /\ tokenMatches(ShardOf(lastWrite.w), shards[ShardOf(lastWrite.w)].range_id)
              /\ createRecord(lastWrite.w, ReissuedRun(lastWrite.w), lastWrite.mode,
                              lastWrite.newState)
              /\ UNCHANGED <<shardVars, domainVars>>
         [] lastWrite.kind = "UpdateShards" ->
              /\ shards' = [shards EXCEPT ![lastWrite.s] =
                               ShardsRow(shards[lastWrite.s].range_id, lastWrite.data,
                                         lastWrite.encoding)]
              /\ lastOp' = Result("UpdateShards", "none", "ok")
              /\ UNCHANGED <<executions, currentExecutions>>
              /\ UNCHANGED <<txState, txWrites, txToken, rowLocks, lastShardOp>>
              /\ UNCHANGED domainVars
         [] lastWrite.kind = "UpdateDomainMetadata" ->
              /\ domainMetadata < MaxVersion
              /\ autocommitBump(domainMetadata)
              /\ UNCHANGED <<executions, currentExecutions>>
              /\ UNCHANGED shardVars

NextReissue ==
    \/ transferOwnership
    \/ applyCreate
    \/ applyUpdateShards
    \/ applyUpdateDomainMetadata
    \/ reissue

SpecReissue == Init /\ [][NextReissue]_vars

----------------------------------------------------------------------------
(* Validations interleaved with writes to the store and the shards table,    *)
(* whose range_id is the counter of ownership changes                        *)

NextClassifier ==
    \/ CallValidateCreate
    \/ CallValidateUpdate
    \/ CallValidateConflictResolve
    \/ transferOwnership
    \/ applyCreate

SpecClassifier == Init /\ [][NextClassifier]_vars

----------------------------------------------------------------------------
(* Properties of the validator *)

LiveStates == {WorkflowStateCreated, WorkflowStateRunning}
ClosedOrZombie == {WorkflowStateCompleted, WorkflowStateZombie}

IsUpdate(mode) == request.op = "update" /\ request.mode = mode
IsConflictResolve(mode) == request.op = "conflictResolve" /\ request.mode = mode

\* C2: a create request is accepted iff (the mode is BrandNew, WorkflowIDReuse
\* or ContinueAsNew and the new state is Created or Running) or (the mode is
\* Zombie and the new state is Zombie); every other combination is an error.
C2_CreateTable ==
    request.op = "create" =>
        /\ verdict \in {"ok", "InvalidModeState"}
        /\ verdict = "ok" <=>
              \/ /\ request.mode \in {CreateWorkflowModeBrandNew,
                                      CreateWorkflowModeWorkflowIDReuse,
                                      CreateWorkflowModeContinueAsNew}
                 /\ request.new \in LiveStates
              \/ /\ request.mode = CreateWorkflowModeZombie
                 /\ request.new = WorkflowStateZombie

C2_Witness ==
    /\ request.op = "create"
    /\ request.mode = CreateWorkflowModeZombie
    /\ request.new = WorkflowStateZombie
    /\ verdict = "ok"

\* C3: an UpdateCurrent update with no new execution is accepted iff the
\* current mutation's state is not Zombie.
C3_UpdateCurrentAlone ==
    (IsUpdate(UpdateWorkflowModeUpdateCurrent) /\ request.new = Nil) =>
        (verdict = "ok" <=> request.cur # WorkflowStateZombie)

C3_Witness ==
    /\ IsUpdate(UpdateWorkflowModeUpdateCurrent)
    /\ request.new = Nil
    /\ request.cur = WorkflowStateCompleted
    /\ verdict = "ok"

\* C4: an UpdateCurrent update with a current mutation and a new execution is
\* accepted iff the current state is Completed or Zombie and the new state is
\* Created or Running; either participant alone can reject it.
C4_UpdateCurrentWithNew ==
    (IsUpdate(UpdateWorkflowModeUpdateCurrent) /\ request.new # Nil) =>
        (verdict = "ok" <=>
            request.cur \in ClosedOrZombie /\ request.new \in LiveStates)

C4_Witness ==
    /\ IsUpdate(UpdateWorkflowModeUpdateCurrent)
    /\ request.cur = WorkflowStateRunning
    /\ request.new = WorkflowStateRunning
    /\ verdict = "InvalidModeState"

\* C5: a BypassCurrent update with no new execution is accepted iff the
\* current mutation's state is Completed or Zombie.
C5_BypassCurrentAlone ==
    (IsUpdate(UpdateWorkflowModeBypassCurrent) /\ request.new = Nil) =>
        (verdict = "ok" <=> request.cur \in ClosedOrZombie)

C5_Witness ==
    /\ IsUpdate(UpdateWorkflowModeBypassCurrent)
    /\ request.new = Nil
    /\ request.cur = WorkflowStateZombie
    /\ verdict = "ok"

\* C6 as stated: a BypassCurrent update with a current mutation and a new
\* execution is accepted iff the current state is Completed or Zombie and the
\* new state is Created or Running.
C6_Original ==
    (IsUpdate(UpdateWorkflowModeBypassCurrent) /\ request.new # Nil) =>
        (verdict = "ok" <=>
            request.cur \in ClosedOrZombie /\ request.new \in LiveStates)

\* C6 amended: a BypassCurrent update with a current mutation and a new
\* execution is accepted iff the current state is Completed or Zombie and the
\* new state is Zombie.
C6_BypassCurrentWithNew ==
    (IsUpdate(UpdateWorkflowModeBypassCurrent) /\ request.new # Nil) =>
        (verdict = "ok" <=>
            request.cur \in ClosedOrZombie /\ request.new = WorkflowStateZombie)

C6_Witness ==
    /\ IsUpdate(UpdateWorkflowModeBypassCurrent)
    /\ request.cur = WorkflowStateCompleted
    /\ request.new = WorkflowStateRunning
    /\ verdict = "InvalidModeState"

\* C7: in mode BypassCurrent with a current mutation and a new snapshot, no
\* error is returned iff the current state is Completed or Zombie and the new
\* state is Zombie; a new state of Created, Running or Completed is an error
\* for every current state.
C7_BypassCurrentTest ==
    (IsUpdate(UpdateWorkflowModeBypassCurrent) /\ request.new # Nil) =>
        /\ (request.cur \in ClosedOrZombie /\ request.new = WorkflowStateZombie)
              => verdict = "ok"
        /\ request.cur \in LiveStates => verdict = "InvalidModeState"
        /\ request.new \in {WorkflowStateCreated, WorkflowStateRunning,
                            WorkflowStateCompleted}
              => verdict = "InvalidModeState"

C7_Witness ==
    /\ IsUpdate(UpdateWorkflowModeBypassCurrent)
    /\ request.cur = WorkflowStateZombie
    /\ request.new = WorkflowStateZombie
    /\ verdict = "ok"

\* C8: an IgnoreCurrent update is accepted iff no new execution is supplied:
\* accepted for every current state when alone, rejected for every pair of
\* states when a new execution is present.
C8_IgnoreCurrent ==
    IsUpdate(UpdateWorkflowModeIgnoreCurrent) =>
        (verdict = "ok" <=> request.new = Nil)

C8_Witness ==
    /\ IsUpdate(UpdateWorkflowModeIgnoreCurrent)
    /\ request.cur = WorkflowStateZombie
    /\ request.new = Nil
    /\ verdict = "ok"

\* C9: an UpdateCurrent conflict-resolve with no new execution is accepted iff
\* the reset state is not Zombie and, when a current mutation is supplied, the
\* current state is Completed or Zombie.
C9_ConflictResolveUpdateCurrentNoNew ==
    (IsConflictResolve(ConflictResolveWorkflowModeUpdateCurrent)
        /\ request.new = Nil) =>
        (verdict = "ok" <=>
            /\ request.reset # WorkflowStateZombie
            /\ request.cur # Nil => request.cur \in ClosedOrZombie)

C9_Witness ==
    /\ IsConflictResolve(ConflictResolveWorkflowModeUpdateCurrent)
    /\ request.new = Nil
    /\ request.reset = WorkflowStateCreated
    /\ request.cur = WorkflowStateZombie
    /\ verdict = "ok"

\* C10 as stated: an UpdateCurrent conflict-resolve with a new execution is
\* rejected iff the reset state is Zombie, or the new state is not Created or
\* Running, or a supplied current state is not Completed or Zombie.
C10_Original ==
    (IsConflictResolve(ConflictResolveWorkflowModeUpdateCurrent)
        /\ request.new # Nil) =>
        (verdict = "InvalidModeState" <=>
            \/ request.reset = WorkflowStateZombie
            \/ request.new \notin LiveStates
            \/ request.cur # Nil /\ request.cur \notin ClosedOrZombie)

\* C10 amended: an UpdateCurrent conflict-resolve with a new execution is
\* rejected iff at least one participant violates its rule, the rules being
\* reset state = Completed, new state Created or Running, and, when supplied,
\* current state Completed or Zombie.
C10_ConflictResolveUpdateCurrentWithNew ==
    (IsConflictResolve(ConflictResolveWorkflowModeUpdateCurrent)
        /\ request.new # Nil) =>
        (verdict = "InvalidModeState" <=>
            \/ request.reset # WorkflowStateCompleted
            \/ request.new \notin LiveStates
            \/ request.cur # Nil /\ request.cur \notin ClosedOrZombie)

C10_Witness ==
    /\ IsConflictResolve(ConflictResolveWorkflowModeUpdateCurrent)
    /\ request.reset = WorkflowStateRunning
    /\ request.new = WorkflowStateRunning
    /\ request.cur = WorkflowStateCompleted
    /\ verdict = "InvalidModeState"

\* C11: in mode UpdateCurrent with a new snapshot supplied, conflict-resolve
\* returns no error iff the reset state is Completed, the new state is Created
\* or Running and the current mutation, when supplied, is Completed or Zombie;
\* a reset state of Created, Running or Zombie is an error whenever a new
\* snapshot is present.
C11_ConflictResolveUpdateCurrentTest ==
    (IsConflictResolve(ConflictResolveWorkflowModeUpdateCurrent)
        /\ request.new # Nil) =>
        /\ request.reset \in {WorkflowStateCreated, WorkflowStateRunning,
                              WorkflowStateZombie}
              => verdict = "InvalidModeState"
        /\ request.new \in ClosedOrZombie => verdict = "InvalidModeState"
        /\ request.cur \in LiveStates => verdict = "InvalidModeState"
        /\ (/\ request.reset = WorkflowStateCompleted
            /\ request.new \in LiveStates
            /\ request.cur \in {Nil} \cup ClosedOrZombie)
              => verdict = "ok"

C11_Witness ==
    /\ IsConflictResolve(ConflictResolveWorkflowModeUpdateCurrent)
    /\ request.reset = WorkflowStateCompleted
    /\ request.new = WorkflowStateCreated
    /\ request.cur = WorkflowStateZombie
    /\ verdict = "ok"

\* C12 as stated: in mode BypassCurrent conflict-resolve accepts the reset
\* record alone iff the reset state is Running or Completed, and accepts reset
\* plus new iff the reset state is Running or Completed and the new state is
\* Zombie.
C12_Original ==
    IsConflictResolve(ConflictResolveWorkflowModeBypassCurrent) =>
        (verdict = "ok" <=>
            /\ request.reset \in {WorkflowStateRunning, WorkflowStateCompleted}
            /\ request.new \in {Nil, WorkflowStateZombie})

\* C12 amended: in mode BypassCurrent conflict-resolve accepts the reset
\* record alone iff the reset state is Completed or Zombie, and accepts reset
\* plus new iff the reset state is Completed and the new state is Zombie.
C12_ConflictResolveBypassCurrent ==
    IsConflictResolve(ConflictResolveWorkflowModeBypassCurrent) =>
        (verdict = "ok" <=>
            IF request.new = Nil
            THEN request.reset \in ClosedOrZombie
            ELSE /\ request.reset = WorkflowStateCompleted
                 /\ request.new = WorkflowStateZombie)

C12_Witness ==
    /\ IsConflictResolve(ConflictResolveWorkflowModeBypassCurrent)
    /\ request.reset = WorkflowStateRunning
    /\ request.new = WorkflowStateZombie
    /\ verdict = "InvalidModeState"

\* C13: in mode BypassCurrent conflict-resolve returns no error for the reset
\* snapshot alone iff the reset state is Completed or Zombie (Created and
\* Running are errors), and for reset plus new snapshot iff the reset state is
\* Completed and the new state is Zombie.
C13_ConflictResolveBypassCurrentTest ==
    IsConflictResolve(ConflictResolveWorkflowModeBypassCurrent) =>
        /\ request.reset \in LiveStates => verdict = "InvalidModeState"
        /\ (request.new = Nil /\ request.reset \in ClosedOrZombie) => verdict = "ok"
        /\ (request.new # Nil /\ request.reset = WorkflowStateZombie)
              => verdict = "InvalidModeState"
        /\ request.new \in {WorkflowStateCreated, WorkflowStateRunning,
                            WorkflowStateCompleted}
              => verdict = "InvalidModeState"
        /\ (request.new = WorkflowStateZombie /\ request.reset = WorkflowStateCompleted)
              => verdict = "ok"

C13_Witness ==
    /\ IsConflictResolve(ConflictResolveWorkflowModeBypassCurrent)
    /\ request.reset = WorkflowStateZombie
    /\ request.new = Nil
    /\ verdict = "ok"

----------------------------------------------------------------------------
(* Properties of the shards table *)

HasRow(s) == shards[s] # NoRow

\* transactions holding a lock on the row of s taken through this call
HoldersVia(s, api) == {t \in Txns : \E l \in rowLocks[s] : l[1] = t /\ l[2] = api}

ReadHolders(s) == HoldersVia(s, "ReadLockShards")
WriteHolders(s) == HoldersVia(s, "WriteLockShards")

\* C14: a fenced shard write that presents range_id N is let through only
\* while the stored range_id is N; presenting N when the stored range_id is
\* another one (it has advanced to N + 1) is answered Fenced, and the stored
\* row (range_id, data, data_encoding) is then what it was before.
C14_Fenced ==
    [][/\ \A t \in Txns, s \in ShardIDs :
            txToken'[t][s] # {} =>
                HasRow(s)' /\ shards'[s].range_id \in txToken'[t][s]
       /\ lastShardOp'.op = "acquireOrVerify" =>
            lastShardOp'.result \in {"ok", "Fenced"}
       /\ (lastShardOp'.op = "acquireOrVerify" /\ lastShardOp'.result = "Fenced") =>
            shards' = shards]_vars

C14_Witness ==
    /\ lastShardOp = ShardResult("acquireOrVerify", 0, 0, "Fenced")
    /\ \E s \in ShardIDs : HasRow(s) /\ shards[s].range_id = 1

\* C15 as stated: the stored range_id of a shard never decreases, whatever
\* InsertIntoShards and UpdateShards calls are made by whatever callers.
C15_Original ==
    [][\A s \in ShardIDs :
          HasRow(s) => HasRow(s)' /\ shards'[s].range_id >= shards[s].range_id]_vars

\* a transaction ends in this step that wrote shard s by an UpdateShards call
\* without having verified the stored range_id
UnfencedEnd(s) ==
    \E t \in Txns :
        /\ txState[t] = "active" /\ txState'[t] = "idle"
        /\ txWrites[t][s] # NoRow
        /\ txToken[t][s] = {}

\* C15 amended: a shard row is never removed, and its stored range_id never
\* decreases across InsertIntoShards calls and across UpdateShards calls of a
\* transaction that first took the write lock, found the stored range_id
\* equal to the one it expected and writes that range_id or the next one.
C15_RangeIDMonotonic ==
    [][\A s \in ShardIDs :
          /\ HasRow(s) => HasRow(s)'
          /\ (HasRow(s) /\ ~UnfencedEnd(s)) =>
                shards'[s].range_id >= shards[s].range_id]_vars

C15_Witness ==
    \E t \in Txns, s \in ShardIDs :
        /\ HasRow(s) /\ shards[s].range_id = 0
        /\ txToken[t][s] = {0}
        /\ txWrites[t][s] # NoRow /\ txWrites[t][s].range_id = 1

\* C19: for one shard any number of transactions hold the read lock
\* (ReadLockShards) at once and do not block one another, at most one
\* transaction holds the write lock (WriteLockShards), and the write lock is
\* never held while another transaction holds the read or the write lock.
C19_SharedExclusive ==
    \A s \in ShardIDs :
        /\ Cardinality(WriteHolders(s)) <= 1
        /\ \A t \in WriteHolders(s) : ReadHolders(s) \cup WriteHolders(s) \subseteq {t}
        /\ \A t \in Txns :
              (\A l \in rowLocks[s] : l[1] # t => l[2] = "ReadLockShards")
                 => ~Blocked(t, s, readLockShardQry)

C19_Witness ==
    \E s \in ShardIDs :
        /\ Cardinality(ReadHolders(s)) >= 2
        /\ WriteHolders(s) = {}

----------------------------------------------------------------------------
(* Properties of the domain metadata counter *)

RECURSIVE SumUpTo(_, _)
SumUpTo(f, n) == IF n < 0 THEN 0 ELSE f[n] + SumUpTo(f, n - 1)

\* number of committed successful bumps so far
SuccessfulBumpCount == SumUpTo(successfulBumps, MaxVersion)

\* transactions holding an uncommitted successful bump that carried version v
PendingBumpers(v) == {t \in Txns : v \in txBumps[t]}

\* a step that is a call of UpdateDomainMetadata
BumpStep ==
    /\ txState' = txState
    /\ lastDomainOp'.op = "UpdateDomainMetadata"
    /\ \/ lastDomainOp' # lastDomainOp
       \/ txMetadata' # txMetadata

\* C16: of the bumps that carry the same expected notification version, one
\* and only one changes the counter row; every other bump changes nothing and
\* is reported as VersionConflict.
C16_OneWinner ==
    /\ [](\A v \in NotificationVersions :
            /\ successfulBumps[v] + Cardinality(PendingBumpers(v)) <= 1
            /\ (v >= InitialNotificationVersion /\ v < domainMetadata)
                  => successfulBumps[v] = 1
            /\ v >= domainMetadata => successfulBumps[v] = 0)
    /\ [][BumpStep =>
            /\ lastDomainOp'.result \in {"ok", "VersionConflict"}
            /\ lastDomainOp'.result = "VersionConflict" =>
                  /\ lastDomainOp'.rows = 0
                  /\ UNCHANGED <<domainMetadata, txMetadata, txBumps, metadataLocks>>
            /\ lastDomainOp'.result = "ok" =>
                  \E t \in Txns :
                      /\ VisibleMetadata(t) = lastDomainOp'.version
                      /\ txMetadata'[t] = {lastDomainOp'.version + 1}
                      /\ \A u \in Txns \ {t} : txMetadata'[u] = txMetadata[u] /\ txMetadata[u] = {}]_vars

\* two callers carried the same version: one has committed its bump and the
\* other has just been refused
C16_Witness ==
    /\ lastDomainOp.op = "UpdateDomainMetadata"
    /\ lastDomainOp.result = "VersionConflict"
    /\ successfulBumps[lastDomainOp.version] = 1
    /\ domainMetadata = lastDomainOp.version + 1

\* C17: the notification version equals its initial value plus the number of
\* successful bumps so far; it never decreases, changes only when bumps are
\* committed, and each bump writes the version it matched plus one.
C17_CounterCountsBumps ==
    /\ [](domainMetadata = InitialNotificationVersion + SuccessfulBumpCount)
    /\ [][/\ domainMetadata' >= domainMetadata
          /\ domainMetadata' # domainMetadata =>
                \E t \in Txns :
                    /\ txState[t] = "active" /\ txState'[t] = "idle"
                    /\ domainMetadata' = domainMetadata + Cardinality(txBumps[t])
          /\ \A t \in Txns :
                (txMetadata'[t] # txMetadata[t] /\ txMetadata'[t] # {}) =>
                    txMetadata'[t] = {VisibleMetadata(t) + 1}]_vars

\* the counter has been bumped twice, by two committed bumps
C17_Witness ==
    /\ domainMetadata = InitialNotificationVersion + 2
    /\ successfulBumps[InitialNotificationVersion] = 1
    /\ successfulBumps[InitialNotificationVersion + 1] = 1

\* C18: a domain mutation is atomic. In every committed state the number of
\* committed domain record changes equals notificationVersion minus its
\* initial value; a step that changes the committed domain records moves the
\* counter by one and a step that moves the counter commits one record change.
C18_MutationAtomic ==
    /\ [](committedChanges = domainMetadata - InitialNotificationVersion)
    /\ [][/\ domains' # domains => domainMetadata' = domainMetadata + 1
          /\ domainMetadata' # domainMetadata =>
                /\ domainMetadata' = domainMetadata + 1
                /\ committedChanges' = committedChanges + 1
          /\ \A t \in Txns :
                (txPc[t] \in {"start", "locked", "changed"} /\ txState'[t] = "idle") =>
                    /\ domains' = domains
                    /\ domainMetadata' = domainMetadata]_vars

\* a mutation has committed, and another one, past its record change, has
\* been refused at the bump and left nothing behind
C18_Witness ==
    /\ domainMetadata = InitialNotificationVersion + 1
    /\ committedChanges = 1
    /\ lastDomainOp.op = "UpdateDomainMetadata"
    /\ lastDomainOp.result = "VersionConflict"
    /\ \A t \in Txns : txState[t] = "idle"

----------------------------------------------------------------------------
(* Properties of the facade *)

Requests == {"create", "update", "conflictResolve"}

TypedErrors == {"InvalidModeState", "Fenced", "VersionConflict", "NotFound", "AlreadyExists"}

----------------------------------------------------------------------------
(* Properties of a cancellable write operation *)

Ends(t) == txState[t] = "active" /\ txState'[t] = "idle"

\* C21: an operation cancelled before its commit leaves no trace.  While the
\* operation is open the committed range_id and current pointer stay at their
\* pre-operation values; the step that ends it leaves both at those values
\* (cancellation) or moves both to the values the operation wrote (commit).
C21_CancelLeavesNoTrace ==
    [][/\ ((\E t \in Txns : txState[t] = "active") /\ txState' = txState) =>
             UNCHANGED <<shards, currentExecutions, executions>>
       /\ \A t \in Txns :
             Ends(t) =>
                \/ UNCHANGED <<shards, currentExecutions, executions>>
                \/ /\ lastShardOp'.op = "commitOperation"
                   /\ shards' = ShardsAfter(t)
                   /\ currentExecutions' = PointerAfter(t)
                   /\ executions' = ExecutionsAfter(t)
       /\ \A t \in Txns :
             (Ends(t) /\ lastShardOp'.op = "cancelOperation") =>
                UNCHANGED <<shards, currentExecutions, executions>>]_vars

\* an operation that had written the shard row and the pointer row has just
\* been cancelled: the store shows neither
C21_Witness ==
    /\ lastShardOp = ShardResult("cancelOperation", 0, 0, "after both writes")
    /\ currentExecutions = {}
    /\ \A s \in ShardIDs : shards[s] # NoRow /\ shards[s].range_id = 0

----------------------------------------------------------------------------
(* Properties of a repeated write *)

ReissueStep == lastWrite.kind # "none" /\ lastWrite.issued = 1 /\ lastWrite'.issued = 2

----------------------------------------------------------------------------
(* Properties of the domains table *)

IDFilter(id) == [ID |-> {id}, Name |-> {}, PageSize |-> {}, GreaterThanID |-> {}]

NameFilter(name) == [ID |-> {}, Name |-> {name}, PageSize |-> {}, GreaterThanID |-> {}]

\* C23: in every state, and in the view of every transaction, no two domain
\* rows carry the same name, every id holds at most one row, and
\* SelectFromDomain by the id of a stored row and by its name both return
\* that row and nothing else.
C23_IdAndNameAreKeys ==
    \A t \in Txns :
        /\ \A i, j \in DomainIDs :
              (/\ VisibleDomain(t, i) # NoRow
               /\ VisibleDomain(t, j) # NoRow
               /\ VisibleDomain(t, i).name = VisibleDomain(t, j).name) => i = j
        /\ \A i \in DomainIDs :
              VisibleDomain(t, i) # NoRow =>
                 /\ Cardinality(getDomainByIDQuery(t, shardID, i)) = 1
                 /\ Returned(SelectFromDomainResults(t, IDFilter(i))) =
                       {[rows |-> <<SelectedRow(t, i)>>, err |-> Nil]}
                 /\ Returned(SelectFromDomainResults(t, NameFilter(VisibleDomain(t, i).name))) =
                       Returned(SelectFromDomainResults(t, IDFilter(i)))

\* two rows are stored after an insert, a rename and a delete went through
C23_Witness ==
    /\ lastDomainOp.op = "DeleteFromDomain"
    /\ lastDomainOp.rows = 1
    /\ Cardinality({i \in DomainIDs : domains[i] # NoRow}) = 2
    /\ \E t \in Txns, i \in DomainIDs :
          /\ domains[i] # NoRow
          /\ txDomainWrites[t][i] = NoRow

----------------------------------------------------------------------------
(* Properties of reading the domains table *)

StoredDomains == {id \in DomainIDs : domains[id] # NoRow}

RECURSIVE Flatten(_)
Flatten(pages) ==
    IF pages = <<>> THEN <<>> ELSE Head(pages) \o Flatten(Tail(pages))

Enumerated == Flatten(paging.pages)

\* C27: over a table that is not written meanwhile, the pages fetched hold
\* at most PageSize rows each, their ids taken together are strictly
\* ascending and are ids of stored domains, the enumeration goes on only after
\* a full page, and once a page with fewer rows than PageSize has come back
\* every stored domain has been returned exactly once.
C27_PagingEnumerates ==
    /\ \A k \in 1..Len(paging.pages) : Len(paging.pages[k]) <= paging.pageSize
    /\ \A i, j \in 1..Len(Enumerated) : i < j => Enumerated[i] < Enumerated[j]
    /\ {Enumerated[i] : i \in 1..Len(Enumerated)} \subseteq StoredDomains
    /\ paging.state = "paging" =>
          Len(paging.pages[Len(paging.pages)]) = paging.pageSize
    /\ paging.state = "done" =>
          /\ {Enumerated[i] : i \in 1..Len(Enumerated)} = StoredDomains
          /\ Len(Enumerated) = Cardinality(StoredDomains)
          /\ Len(paging.pages[Len(paging.pages)]) < paging.pageSize

\* two stored domains with an id between them free have been enumerated one
\* to a page, and the third page came back empty
C27_Witness ==
    /\ paging.state = "done"
    /\ paging.pageSize = 1
    /\ Len(paging.pages) = 3
    /\ Enumerated = <<1, 3>>
    /\ selected.filter = {PageFilter(1, {3})}

\* the filter of the last call names no row and no page
MissingArgs(filter) ==
    /\ filter.ID = {}
    /\ filter.Name = {}
    /\ filter.PageSize = {} \/ Deref(filter.PageSize) <= 0

\* the stored domains a single-row filter asks for: the one with its ID when
\* it has an ID, else the ones with its Name
AskedFor(filter) ==
    {id \in StoredDomains : IF filter.ID # {} THEN id = Deref(filter.ID)
                                            ELSE domains[id].name = Deref(filter.Name)}

\* C28: a call whose filter has no ID, no Name and a PageSize unset or not
\* above 0 returns errMissingArgs and no rows and issues no query; a call
\* whose filter has an ID or a Name issues one single-row query, by id when
\* the ID is set and by name otherwise, whatever its PageSize, and returns
\* the row asked for, or ErrNoRows and no rows when none is stored.
C28_MissingArgs ==
    \A filter \in selected.filter :
        /\ MissingArgs(filter) =>
              /\ selected.err = errMissingArgs
              /\ selected.rows = <<>>
              /\ selected.queries = {}
        /\ (filter.ID # {} \/ filter.Name # {}) =>
              /\ selected.queries = {IF filter.ID # {} THEN "getDomainByIDQuery"
                                                         ELSE "getDomainByNameQuery"}
              /\ IF AskedFor(filter) = {}
                 THEN selected.rows = <<>> /\ selected.err = ErrNoRows
                 ELSE /\ Len(selected.rows) = 1
                      /\ selected.rows[1].id \in AskedFor(filter)
                      /\ selected.rows[1].name = domains[selected.rows[1].id].name
                      /\ selected.err = Nil

\* over a table that holds rows, a call whose filter has only a PageSize of 0
\* and a GreaterThanID has been answered errMissingArgs
C28_Witness ==
    /\ StoredDomains # {}
    /\ \E filter \in selected.filter :
          /\ MissingArgs(filter)
          /\ filter.PageSize = {0}
          /\ filter.GreaterThanID # {}
    /\ selected.err = errMissingArgs
    /\ lastDomainOp.op = "SelectFromDomain"

----------------------------------------------------------------------------
(* Properties of the calls on domain_metadata *)

LockStep ==
    /\ txState' = txState
    /\ lastDomainOp'.op = "LockDomainMetadata"
    /\ \/ lastDomainOp' # lastDomainOp
       \/ metadataLocks' # metadataLocks
       \/ metadataRow' # metadataRow

ReadStep ==
    /\ txState' = txState
    /\ lastDomainOp'.op = "SelectFromDomainMetadata"
    /\ \/ lastDomainOp' # lastDomainOp
       \/ metadataRow' # metadataRow

LockHolders == {l[1] : l \in {k \in metadataLocks : k[2] = "LockDomainMetadata"}}

\* C24 as stated: the lock call hands its caller the notification version a
\* non-locking read returns at that moment.
C24_Original ==
    [][LockStep =>
          \E t \in Txns : /\ t \in LockHolders'
                          /\ metadataRow' = SelectFromDomainMetadataRow(t)]_vars

\* C24, amended: the lock call takes the exclusive row lock and hands its
\* caller no version, only the error; the non-locking read hands back the
\* version its transaction sees; and while a transaction holds the lock the
\* committed version stays what it is, so the holder reads the value the lock
\* statement read.
C24_LockReturnsNoVersion ==
    [][/\ LockStep =>
             /\ metadataRow' = {}
             /\ LockHolders' # {}
             /\ Cardinality({l[1] : l \in metadataLocks'}) = 1
       /\ ReadStep =>
             \E t \in Txns : /\ txState[t] = "active"
                             /\ metadataRow' = {VisibleMetadata(t)}
       /\ \A t \in Txns :
             (t \in LockHolders /\ t \in LockHolders') =>
                 domainMetadata' = domainMetadata]_vars

\* a transaction holds the lock on a counter that has been bumped and has
\* just read the version
C24_Witness ==
    /\ lastDomainOp.op = "SelectFromDomainMetadata"
    /\ metadataRow = {domainMetadata}
    /\ domainMetadata > InitialNotificationVersion
    /\ \E t \in LockHolders : txState[t] = "active"

----------------------------------------------------------------------------
(* Properties of the shards table with more than one shard *)

\* the shards whose committed row, uncommitted row or row locks a step changes
Touched ==
    {s \in ShardIDs : \/ shards'[s] # shards[s]
                      \/ rowLocks'[s] # rowLocks[s]
                      \/ \E t \in Txns : txWrites'[t][s] # txWrites[t][s]}

\* a call of InsertIntoShards, UpdateShards, ReadLockShards or WriteLockShards
ShardCallStep == txState' = txState /\ lastShardOp'.op \in
    {"InsertIntoShards", "UpdateShards", "ReadLockShards", "WriteLockShards"}

\* C26: a call of InsertIntoShards, UpdateShards, ReadLockShards or
\* WriteLockShards changes the range_id, the data and the row locks of one
\* shard at most and leaves every other shard as it was, and a transaction
\* waits for the row of a shard only when another transaction holds a lock
\* on the row of that very shard.
C26_ShardsIndependent ==
    /\ [](\A t \in Txns, b \in ShardIDs, clause \in {ForShare, ForUpdate} :
             Blocked(t, b, clause) => \E l \in rowLocks[b] : l[1] # t)
    /\ [][ShardCallStep => Cardinality(Touched) <= 1]_vars

\* one transaction holds the exclusive lock of a shard while another has
\* written and locked the row of a second shard
C26_Witness ==
    \E a, b \in ShardIDs, t, u \in Txns :
        /\ a # b /\ t # u
        /\ \E l \in rowLocks[a] : l[1] = t /\ l[3] = ForUpdate
        /\ lastShardOp = ShardResult("UpdateShards", u, b, "ok")
        /\ txWrites[u][b] # NoRow /\ txWrites[u][b].range_id > 0
        /\ txWrites[t][b] = NoRow /\ txWrites[u][a] = NoRow

----------------------------------------------------------------------------
(* Properties of the validator among writers *)

----------------------------------------------------------------------------
(* Properties of the execution store *)

AtMostOneCurrent ==
    \A w \in WorkflowIDs : Cardinality(CurrentRunsOf(w)) <= 1

HolderNotZombie ==
    \A row \in currentExecutions : executions[row] # WorkflowStateZombie

IsIgnoreCurrentUpdate(op) ==
    op.op = "update" /\ op.mode = UpdateWorkflowModeIgnoreCurrent

====
